---------------------------- MODULE Spec2Model ----------------------------
(***************************************************************************)
(* A model of convert_episodes.py: the size parser, the filename           *)
(* normalisation done at the head of process_video, the probe parsing and  *)
(* conversion planning, and the batch loop of main with its two limits.    *)
(*                                                                         *)
(* Text is a sequence of one-character strings.  The standard output of    *)
(* ffprobe is a sequence of symbols: "\n", "," and atoms that stand for a  *)
(* non-empty run of characters holding no comma, newline or blank.         *)
(***************************************************************************)
EXTENDS Integers, Sequences, FiniteSets, TLC

VARIABLES
    \* ---- main()
    walk,             \* the (root, file, size) entries os.walk yields, in order
    conversion_limit, \* args.limit
    size_arg,         \* args.size
    size_limit_bytes, \* convert_size_to_bytes(args.size)
    conversion_count,
    size_written,
    idx,              \* position of the two nested for loops in walk
    pc,               \* where the control thread is
    fs,               \* the filesystem: path -> size, for the paths that exist
    stdout,           \* result.stdout of the ffprobe run being parsed
    job,              \* locals of the running process_video call
    probed,           \* indices of walk for which ffprobe was run
    transcoded,       \* indices of walk for which ffmpeg was run
    existing,         \* size the output had when ffmpeg was started, -1 if it had none
    \* ---- filename normalisation applied on its own
    nm_in, nm_once, nm_twice, nm_step,
    \* ---- convert_size_to_bytes applied on its own
    sz_in, sz_out, sz_step

mainVars == <<walk, conversion_limit, size_arg, size_limit_bytes, conversion_count,
              size_written, idx, pc, fs, stdout, job, probed, transcoded, existing>>
nameVars == <<nm_in, nm_once, nm_twice, nm_step>>
sizeVars == <<sz_in, sz_out, sz_step>>
vars == <<mainVars, nameVars, sizeVars>>

-----------------------------------------------------------------------------
(* Bounds of the model *)

MaxFiles == 2        \* entries in the walk
MaxChunks == 3       \* chunks a filename stem is built from
MaxSizeLen == 3      \* characters of a -size argument

-----------------------------------------------------------------------------
(* Text helpers *)

UpperChars == <<"A","B","C","D","E","F","G","H","I","J","K","L","M",
                "N","O","P","Q","R","S","T","U","V","W","X","Y","Z">>
LowerChars == <<"a","b","c","d","e","f","g","h","i","j","k","l","m",
                "n","o","p","q","r","s","t","u","v","w","x","y","z">>

ToLower == [c \in {UpperChars[i] : i \in 1..26} |->
               LowerChars[CHOOSE i \in 1..26 : UpperChars[i] = c]]
ToUpper == [c \in {LowerChars[i] : i \in 1..26} |->
               UpperChars[CHOOSE i \in 1..26 : LowerChars[i] = c]]

\* str.lower() / the case folding of re.IGNORECASE, on one ASCII character
Lower(c) == IF c \in DOMAIN ToLower THEN ToLower[c] ELSE c

\* str.upper() on one ASCII character
Upper(c) == IF c \in DOMAIN ToUpper THEN ToUpper[c] ELSE c

\* s.endswith(suffix)
EndsWith(s, suffix) ==
    /\ Len(suffix) <= Len(s)
    /\ SubSeq(s, Len(s) - Len(suffix) + 1, Len(s)) = suffix

\* t occurs in s, character for character
Contains(s, t) == \E i \in 1..(Len(s) - Len(t) + 1) : SubSeq(s, i, i + Len(t) - 1) = t

\* s in lower case
LowerText(s) == [i \in 1..Len(s) |-> Lower(s[i])]

\* the literal t matches s at position i under re.IGNORECASE
MatchAt(s, i, t) ==
    /\ i + Len(t) - 1 <= Len(s)
    /\ \A k \in 1..Len(t) : Lower(s[i + k - 1]) = Lower(t[k])

\* the first alternative of (a|b|...) that matches at i, 0 when none does
FirstAlt(alts, s, i) ==
    IF \E a \in 1..Len(alts) : MatchAt(s, i, alts[a])
    THEN CHOOSE a \in 1..Len(alts) :
            /\ MatchAt(s, i, alts[a])
            /\ \A b \in 1..(a - 1) : ~MatchAt(s, i, alts[b])
    ELSE 0

\* re.search(r'(a|b|...)', s, re.IGNORECASE) is not None
Search(alts, s) == \E i \in 1..Len(s) : FirstAlt(alts, s, i) # 0

\* re.sub(r'(a|b|...)', repl, s, flags=re.IGNORECASE): leftmost matches,
\* not overlapping, scanning resumes after each match; from[i] is the result
\* for the text from position i on
Sub(alts, repl, s) ==
    LET from[i \in 1..(Len(s) + 1)] ==
            IF i > Len(s) THEN <<>>
            ELSE LET a == FirstAlt(alts, s, i) IN
                 IF a # 0
                 THEN repl \o from[i + Len(alts[a])]
                 ELSE <<s[i]>> \o from[i + 1]
    IN  from[1]

-----------------------------------------------------------------------------
(* process_video: the skip test and the output name *)

\* the alternatives of the three patterns, in the order the source lists them
HevcAlts == << <<"x","2","6","5">>, <<"H","E","V","C">>, <<"h","2","6","5">>,
               <<"H","2","6","5">>, <<"X","2","6","5">>, <<"h","e","v","c">> >>
VideoAlts == << <<"h","2","6","4">>, <<"x","2","6","4">>, <<"H","2","6","4">>,
                <<"H",".","2","6","4">>, <<"h",".","2","6","4">>, <<"X","2","6","4">>,
                <<"x","v","i","d">>, <<"X","v","i","D">>, <<"d","i","v","x">>,
                <<"D","i","v","X">> >>
AudioAlts == << <<"M","P","3">>, <<"m","p","3">>, <<"D","T","S">>, <<"d","t","s">>,
                <<"W","M","A">>, <<"w","m","a">>, <<"F","L","A","C">>,
                <<"f","l","a","c">> >>
HEVC == <<"H","E","V","C">>
AAC == <<"A","A","C">>
DotMkv == <<".","m","k","v">>
DotMp4 == <<".","m","p","4">>
DotAvi == <<".","a","v","i">>

\* the skip test without re.IGNORECASE: only the casings the pattern spells out
AlreadyHevcAsSpelled(filename) ==
    \E a \in 1..Len(HevcAlts) : Contains(filename, HevcAlts[a])

\* re.search(r'(x265|HEVC|h265|H265|X265|hevc)', filename, re.IGNORECASE)
AlreadyHevc(filename) == Search(HevcAlts, filename)

\* the output name built from the whole name instead of its stem
StemKeepsSuffix(name) == name

\* Path(name).stem: the name up to its last dot, when that dot is neither the
\* first nor the last character
Stem(name) ==
    LET dots == {i \in 1..Len(name) : name[i] = "."}
        last == IF dots = {} THEN 0 ELSE CHOOSE i \in dots : \A j \in dots : j <= i
    IN  IF 1 < last /\ last < Len(name) THEN SubSeq(name, 1, last - 1) ELSE name

\* the two re.sub calls
RenameCodecs(filename) == Sub(AudioAlts, AAC, Sub(VideoAlts, HEVC, filename))

\* output_file of process_video
OutputFile(filename) == Stem(RenameCodecs(filename)) \o DotMkv

\* file.endswith((".mp4", ".mkv", ".avi"))
IsCandidate(file) ==
    EndsWith(file, DotMp4) \/ EndsWith(file, DotMkv) \/ EndsWith(file, DotAvi)

-----------------------------------------------------------------------------
(* convert_size_to_bytes *)

\* Python integers are unbounded; a value is kept as sign and magnitude
\* hi * Base + lo, 0 <= lo < Base, so that n * 1024**4 is representable.
Base == 1024 * 1024
BigNat(h, l) == [neg |-> FALSE, hi |-> h, lo |-> l]
BigZero == BigNat(0, 0)
BigOfNat(n) == BigNat(n \div Base, n % Base)
BigNeg(b) == IF b.hi = 0 /\ b.lo = 0 THEN b ELSE [b EXCEPT !.neg = ~b.neg]
\* n * u, n a natural number
BigTimes(n, u) ==
    LET low == n * u.lo
    IN  [neg |-> u.neg /\ n # 0, hi |-> n * u.hi + low \div Base, lo |-> low % Base]
BigPositive(b) == ~b.neg /\ (b.hi > 0 \/ b.lo > 0)
\* n >= b, n a natural number
NatGeBig(n, b) ==
    \/ b.neg
    \/ n \div Base > b.hi
    \/ n \div Base = b.hi /\ n % Base >= b.lo

Digits == <<"0","1","2","3","4","5","6","7","8","9">>
IsDigit(c) == \E d \in 1..10 : Digits[d] = c
DigitVal(c) == (CHOOSE d \in 1..10 : Digits[d] = c) - 1

DecimalValue(ds) ==
    LET upto[i \in 0..Len(ds)] ==
            IF i = 0 THEN 0 ELSE 10 * upto[i - 1] + DigitVal(ds[i])
    IN  upto[Len(ds)]

\* int(s) on text made of signs, digits and letters: an optional sign and at
\* least one digit, anything else raises ValueError
IntOf(s) ==
    LET signed == s # <<>> /\ s[1] \in {"+", "-"}
        body == IF signed THEN Tail(s) ELSE s
    IN  IF body # <<>> /\ \A i \in 1..Len(body) : IsDigit(body[i])
        THEN [ok |-> TRUE, neg |-> signed /\ s[1] = "-", mag |-> DecimalValue(body)]
        ELSE [ok |-> FALSE, neg |-> FALSE, mag |-> 0]

\* units = {"K": 1024, "M": 1024**2, "G": 1024**3, "T": 1024**4}
UnitNames == {"K", "M", "G", "T"}
Units(u) ==
    CASE u = "K" -> BigNat(0, 1024)
      [] u = "M" -> BigNat(1, 0)
      [] u = "G" -> BigNat(1024, 0)
      [] u = "T" -> BigNat(1024 * 1024, 0)

Raised == [ok |-> FALSE, val |-> BigZero]
Returned(n, u) ==
    [ok |-> TRUE, val |-> IF n.neg THEN BigNeg(BigTimes(n.mag, u)) ELSE BigTimes(n.mag, u)]

\* the unit without .upper()
UnitAsTyped(c) == c

\* the unit looked up for the last character of size_str
UnitOf(c) == Upper(c)

convert_size_to_bytes(size_str) ==
    IF size_str = <<"0">> THEN [ok |-> TRUE, val |-> BigZero]
    ELSE IF size_str = <<>> THEN Raised          \* size_str[-1]: IndexError
    ELSE LET unit == UnitOf(size_str[Len(size_str)]) IN
         IF unit \in UnitNames
         THEN LET n == IntOf(SubSeq(size_str, 1, Len(size_str) - 1))
              IN  IF n.ok THEN Returned(n, Units(unit)) ELSE Raised
         ELSE LET n == IntOf(size_str)
              IN  IF n.ok THEN Returned(n, BigNat(0, 1)) ELSE Raised


-----------------------------------------------------------------------------
(* process_video: reading the probe output, planning the conversion *)

NL == "\n"
COMMA == ","

\* str.strip() on the probe output: the newlines at both ends
Strip(s) ==
    LET kept == {i \in 1..Len(s) : s[i] # NL} IN
    IF kept = {} THEN <<>>
    ELSE SubSeq(s, CHOOSE i \in kept : \A j \in kept : i <= j,
                   CHOOSE i \in kept : \A j \in kept : j <= i)

\* str.split(sep): one piece more than there are separators, empty pieces kept
Split(s, sep) ==
    LET at == {i \in 1..Len(s) : s[i] = sep}
        \* the position of the k-th separator; 0 and Len(s) + 1 bound the text
        cut(k) == IF k = 0 THEN 0
                  ELSE IF k > Cardinality(at) THEN Len(s) + 1
                  ELSE CHOOSE i \in at : Cardinality({j \in at : j < i}) = k - 1
    IN  [k \in 1..(Cardinality(at) + 1) |-> SubSeq(s, cut(k - 1) + 1, cut(k) - 1)]

\* codec_info = result.stdout.strip().split('\n')
CodecInfo(out) == Split(Strip(out), NL)

NoCodecs == [ok |-> TRUE, video |-> <<>>, audio |-> <<>>, subtitle |-> <<>>]

\* the loop body keeping the first codec seen of each type instead of the last
ReadLineKeepsFirst(acc, line) ==
    LET fields == Split(line, COMMA) IN
    IF Len(fields) # 2 THEN [acc EXCEPT !.ok = FALSE]
    ELSE IF fields[2] = <<"video">> /\ acc.video = <<>> THEN [acc EXCEPT !.video = fields[1]]
    ELSE IF fields[2] = <<"audio">> /\ acc.audio = <<>> THEN [acc EXCEPT !.audio = fields[1]]
    ELSE IF fields[2] = <<"subtitle">> /\ acc.subtitle = <<>>
         THEN [acc EXCEPT !.subtitle = fields[1]]
    ELSE acc

\* the loop body passing over a line that has not two fields
ReadLineSkipsMalformed(acc, line) ==
    LET fields == Split(line, COMMA) IN
    IF Len(fields) # 2 THEN acc
    ELSE IF fields[2] = <<"video">> THEN [acc EXCEPT !.video = fields[1]]
    ELSE IF fields[2] = <<"audio">> THEN [acc EXCEPT !.audio = fields[1]]
    ELSE IF fields[2] = <<"subtitle">> THEN [acc EXCEPT !.subtitle = fields[1]]
    ELSE acc

\* one pass of the body of "for line in codec_info"
ReadLine(acc, line) ==
    LET fields == Split(line, COMMA) IN
    IF Len(fields) # 2 THEN [acc EXCEPT !.ok = FALSE]   \* unpacking: ValueError
    ELSE LET codec_name == fields[1]
             codec_type == fields[2]
         IN  IF codec_type = <<"video">> THEN [acc EXCEPT !.video = codec_name]
             ELSE IF codec_type = <<"audio">> THEN [acc EXCEPT !.audio = codec_name]
             ELSE IF codec_type = <<"subtitle">> THEN [acc EXCEPT !.subtitle = codec_name]
             ELSE acc

\* the loop over codec_info; it ends at the first line that raises
ReadCodecs(lines) ==
    LET after[i \in 0..Len(lines)] ==
            IF i = 0 THEN NoCodecs
            ELSE IF ~after[i - 1].ok THEN after[i - 1]
            ELSE ReadLine(after[i - 1], lines[i])
    IN  after[Len(lines)]

CopyCodecs == {<<"aac">>, <<"ac3">>, <<"eac3">>}

\* audio_action = "copy" if audio_codec_info in {"aac", "ac3", "eac3"} else "aac"
AudioAction(audio_codec_info) ==
    IF audio_codec_info \in CopyCodecs THEN "copy" ELSE "aac"

\* subtitle_action
SubtitleAction(subtitle_codec_info) ==
    IF subtitle_codec_info = <<>> THEN <<"-sn">> ELSE <<"-c:s", "copy">>

-----------------------------------------------------------------------------
(* The inputs of a run *)

Root == "."
SubDir == "./d"
Dirs == <<Root, SubDir>>        \* the order os.walk visits them in
DirRank(d) == CHOOSE i \in 1..Len(Dirs) : Dirs[i] = d

A_mp4 == <<"a",".","m","p","4">>
A_mkv == <<"a",".","m","k","v">>
Tok_avi == <<"x","2","6","4",".","m","P","3",".","a","v","i">>
Skip_mkv == <<"x","2","6","4",".","H","e","V","c",".","m","k","v">>
Skip_avi == <<"m","p","3","H","2","6","5",".","a","v","i">>
N_txt == <<"n",".","t","x","t">>

File(d, n, sz) == [dir |-> d, name |-> n, size |-> sz]
PathOf(d, n) == [dir |-> d, name |-> n]

\* the files a tree is drawn from, each with the size it has when the run starts
Tree == { File(Root, A_mp4, 1024), File(Root, A_mkv, 1), File(Root, A_mkv, 1024),
          File(SubDir, A_mkv, 2), File(SubDir, A_mp4, 1), File(Root, Tok_avi, 1),
          File(Root, Skip_mkv, 1), File(SubDir, Skip_avi, 1), File(Root, N_txt, 1) }

\* what os.walk(".") can yield: distinct paths, the files of "." before those of "./d"
Walks ==
    { w \in UNION { [1..n -> Tree] : n \in 0..MaxFiles } :
        \A i, j \in DOMAIN w :
            i < j => /\ PathOf(w[i].dir, w[i].name) # PathOf(w[j].dir, w[j].name)
                     /\ DirRank(w[i].dir) <= DirRank(w[j].dir) }

Limits == {-1, 0, 1, 2}
SizeArgs == { <<"0">>, <<"3">>, <<"1","K">> }
OutSizes == {2, 1024}           \* sizes ffmpeg may leave a new output with

V == <<"h264", COMMA, "video", NL>>
ProbeOutputs ==
    { <<>>,                                                   \* the probe failed
      V,
      V \o <<"aac", COMMA, "audio", NL>>,
      V \o <<"aac", COMMA, "audio", NL, "mp3", COMMA, "audio", NL>>,
      V \o <<"mp3", COMMA, "audio", NL, "ac3", COMMA, "audio", NL,
             "subrip", COMMA, "subtitle", NL>>,
      V \o <<"AAC", COMMA, "audio">>,
      V \o <<NL, "eac3", COMMA, "audio", NL>>,                \* an empty line
      <<"h264", COMMA, "video", COMMA, "x", NL>>,
      V \o <<"eac3", COMMA, "audio", NL, "h264">> }

NoPath == PathOf("", <<>>)
NoJob == [input_file |-> NoPath, output_path |-> NoPath, audio_action |-> "",
          subtitle_action |-> <<>>]


-----------------------------------------------------------------------------
(* main and process_video *)

InitialFs(w) ==
    [p \in {PathOf(w[i].dir, w[i].name) : i \in DOMAIN w} |->
        (CHOOSE f \in {w[i] : i \in DOMAIN w} : PathOf(f.dir, f.name) = p).size]

NameIdle == nm_in = <<>> /\ nm_once = <<>> /\ nm_twice = <<>> /\ nm_step = "idle"
SizeIdle == sz_in = <<>> /\ sz_out = Raised /\ sz_step = "idle"

\* main up to the loop: the arguments are parsed, both accumulators are 0
MainInit ==
    /\ walk \in Walks
    /\ conversion_limit \in Limits
    /\ size_arg \in SizeArgs
    /\ size_limit_bytes = convert_size_to_bytes(size_arg).val
    /\ conversion_count = 0
    /\ size_written = 0
    /\ idx = 1
    /\ pc = "walk"
    /\ fs = InitialFs(walk)
    /\ stdout = <<>>
    /\ job = NoJob
    /\ probed = {}
    /\ transcoded = {}
    /\ existing = -1

MainIdle ==
    /\ walk = <<>> /\ conversion_limit = 0 /\ size_arg = <<"0">>
    /\ size_limit_bytes = BigZero /\ conversion_count = 0 /\ size_written = 0
    /\ idx = 1 /\ pc = "idle" /\ fs = InitialFs(<<>>) /\ stdout = <<>>
    /\ job = NoJob /\ probed = {} /\ transcoded = {} /\ existing = -1

Init == MainInit /\ NameIdle /\ SizeIdle

AtFile == pc = "walk" /\ idx <= Len(walk)
Current == walk[idx]

\* the count test with > for >=
CountLimitHitLate == conversion_limit > 0 /\ conversion_count > conversion_limit

\* the count test left out
CountLimitIgnored == FALSE

\* the count test with a limit of 0 taken as a limit
CountLimitHitAtZero == conversion_limit >= 0 /\ conversion_count >= conversion_limit

\* if conversion_limit > 0 and conversion_count >= conversion_limit
CountLimitHit == conversion_limit > 0 /\ conversion_count >= conversion_limit

\* the size test with > for >=
SizeLimitHitLate(written) ==
    /\ BigPositive(size_limit_bytes)
    /\ NatGeBig(written, size_limit_bytes)
    /\ BigOfNat(written) # size_limit_bytes

\* if size_limit_bytes > 0 and size_written >= size_limit_bytes, on the new total
SizeLimitHit(written) == BigPositive(size_limit_bytes) /\ NatGeBig(written, size_limit_bytes)

\* main, after process_video returned (count, file_size)
Returns(count, file_size) ==
    /\ conversion_count' = count
    /\ size_written' = size_written + file_size
    /\ IF SizeLimitHit(size_written + file_size)
       THEN pc' = "size_reached" /\ idx' = idx
       ELSE pc' = "walk" /\ idx' = idx + 1

\* a file that is no .mp4, .mkv or .avi: the loop goes on
NotCandidate ==
    /\ AtFile
    /\ ~IsCandidate(Current.name)
    /\ idx' = idx + 1
    /\ UNCHANGED <<walk, conversion_limit, size_arg, size_limit_bytes, conversion_count,
                   size_written, pc, fs, stdout, job, probed, transcoded, existing>>
    /\ UNCHANGED <<nameVars, sizeVars>>

\* the count limit is met at a candidate: main returns
ReachCountLimit ==
    /\ AtFile
    /\ IsCandidate(Current.name)
    /\ CountLimitHit
    /\ pc' = "count_reached"
    /\ UNCHANGED <<walk, conversion_limit, size_arg, size_limit_bytes, conversion_count,
                   size_written, idx, fs, stdout, job, probed, transcoded, existing>>
    /\ UNCHANGED <<nameVars, sizeVars>>

\* process_video returns (conversion_count, 0) for a name that says HEVC
SkipHevc ==
    /\ AtFile
    /\ IsCandidate(Current.name)
    /\ ~CountLimitHit
    /\ AlreadyHevc(Current.name)
    /\ Returns(conversion_count, 0)
    /\ UNCHANGED <<walk, conversion_limit, size_arg, size_limit_bytes, fs, stdout, job,
                   probed, transcoded, existing>>
    /\ UNCHANGED <<nameVars, sizeVars>>

\* process_video up to the return of ffprobe: the output path, the probe's output
Probe ==
    /\ AtFile
    /\ IsCandidate(Current.name)
    /\ ~CountLimitHit
    /\ ~AlreadyHevc(Current.name)
    /\ \E out \in ProbeOutputs : stdout' = out
    /\ job' = [NoJob EXCEPT !.input_file = PathOf(Current.dir, Current.name),
                            !.output_path = PathOf(Current.dir, OutputFile(Current.name))]
    /\ probed' = probed \cup {idx}
    /\ pc' = "parse"
    /\ UNCHANGED <<walk, conversion_limit, size_arg, size_limit_bytes, conversion_count,
                   size_written, idx, fs, transcoded, existing>>
    /\ UNCHANGED <<nameVars, sizeVars>>

\* the codec loop and the two actions; a malformed line raises out of main
Plan ==
    /\ pc = "parse"
    /\ LET codecs == ReadCodecs(CodecInfo(stdout)) IN
       IF codecs.ok
       THEN /\ job' = [job EXCEPT !.audio_action = AudioAction(codecs.audio),
                                  !.subtitle_action = SubtitleAction(codecs.subtitle)]
            /\ pc' = "ffmpeg"
       ELSE /\ job' = job
            /\ pc' = "crashed"
    /\ stdout' = <<>>
    /\ UNCHANGED <<walk, conversion_limit, size_arg, size_limit_bytes, conversion_count,
                   size_written, idx, fs, probed, transcoded, existing>>
    /\ UNCHANGED <<nameVars, sizeVars>>

\* ffmpeg without -n
Overwrite(output_path) == FALSE

\* ffmpeg -n: an output path that exists is not written
NoOverwrite(output_path) == output_path \in DOMAIN fs

\* subprocess.run(ffmpeg_cmd): with -n an existing output is left alone; otherwise
\* ffmpeg writes the output, or fails and leaves none (its exit code is not read)
Transcode ==
    /\ pc = "ffmpeg"
    /\ transcoded' = transcoded \cup {idx}
    /\ existing' = IF job.output_path \in DOMAIN fs THEN fs[job.output_path] ELSE -1
    /\ IF NoOverwrite(job.output_path)
       THEN fs' = fs
       ELSE \/ \E sz \in OutSizes :
                 fs' = [p \in DOMAIN fs \cup {job.output_path} |->
                           IF p = job.output_path THEN sz ELSE fs[p]]
            \/ fs' = fs
    /\ pc' = "stat"
    /\ UNCHANGED <<walk, conversion_limit, size_arg, size_limit_bytes, conversion_count,
                   size_written, idx, stdout, job, probed>>
    /\ UNCHANGED <<nameVars, sizeVars>>

\* os.path.getsize(output_path), the return of process_video, and main's accounting
Account ==
    /\ pc = "stat"
    /\ IF job.output_path \in DOMAIN fs
       THEN Returns(conversion_count + 1, fs[job.output_path])
       ELSE /\ pc' = "crashed"                  \* FileNotFoundError
            /\ UNCHANGED <<conversion_count, size_written, idx>>
    /\ UNCHANGED <<walk, conversion_limit, size_arg, size_limit_bytes, fs, stdout, job,
                   probed, transcoded, existing>>
    /\ UNCHANGED <<nameVars, sizeVars>>

\* the walk is over: "Conversion completed"
Complete ==
    /\ pc = "walk"
    /\ idx > Len(walk)
    /\ pc' = "completed"
    /\ UNCHANGED <<walk, conversion_limit, size_arg, size_limit_bytes, conversion_count,
                   size_written, idx, fs, stdout, job, probed, transcoded, existing>>
    /\ UNCHANGED <<nameVars, sizeVars>>

Next ==
    \/ NotCandidate
    \/ ReachCountLimit
    \/ SkipHevc
    \/ Probe
    \/ Plan
    \/ Transcode
    \/ Account
    \/ Complete

Spec == Init /\ [][Next]_vars

-----------------------------------------------------------------------------
(* The output name, applied to names of a bounded shape *)

Chunks == { <<"a">>, <<".">>, <<"w","m">>, <<"m","p","3">>, <<"W","m","A">>,
            <<"f","l","a","c">>, <<"x","2","6","4">>, <<"h">>, <<"2","6","4">>,
            <<"D","i","v","X">> }
Exts == {DotMp4, DotMkv, DotAvi}

Concat(parts) ==
    LET upto[i \in 0..Len(parts)] == IF i = 0 THEN <<>> ELSE upto[i - 1] \o parts[i]
    IN  upto[Len(parts)]

FileNames ==
    { Concat(parts) \o e : parts \in UNION { [1..n -> Chunks] : n \in 0..MaxChunks },
                           e \in Exts }

NameInit ==
    /\ MainIdle /\ SizeIdle
    /\ nm_in \in FileNames
    /\ nm_once = <<>> /\ nm_twice = <<>>
    /\ nm_step = "named"

NormalizeOnce ==
    /\ nm_step = "named"
    /\ nm_once' = OutputFile(nm_in)
    /\ nm_step' = "once"
    /\ UNCHANGED <<nm_in, nm_twice, mainVars, sizeVars>>

NormalizeTwice ==
    /\ nm_step = "once"
    /\ nm_twice' = OutputFile(nm_once)
    /\ nm_step' = "twice"
    /\ UNCHANGED <<nm_in, nm_once, mainVars, sizeVars>>

NameNext == NormalizeOnce \/ NormalizeTwice

NameSpec == NameInit /\ [][NameNext]_vars

-----------------------------------------------------------------------------
(* convert_size_to_bytes, applied to arguments of a bounded length *)

SizeChars == {"0", "1", "9", "-", "+", "K", "k", "M", "m", "G", "g", "T", "t", "x"}
SizeStrings == UNION { [1..n -> SizeChars] : n \in 0..MaxSizeLen }

SizeInit ==
    /\ MainIdle /\ NameIdle
    /\ sz_in \in SizeStrings
    /\ sz_out = Raised
    /\ sz_step = "given"

ParseSize ==
    /\ sz_step = "given"
    /\ sz_out' = convert_size_to_bytes(sz_in)
    /\ sz_step' = "parsed"
    /\ UNCHANGED <<sz_in, mainVars, nameVars>>

SizeNext == ParseSize

SizeSpec == SizeInit /\ [][SizeNext]_vars


-----------------------------------------------------------------------------
(* What the properties below are stated with *)

\* the name contains x265, hevc or h265 in some casing
HasHevcToken(name) ==
    \E t \in { <<"x","2","6","5">>, <<"h","e","v","c">>, <<"h","2","6","5">> } :
        Contains(LowerText(name), t)

\* the files of the walk that are candidates and are not skipped
Eligible == { i \in DOMAIN walk : IsCandidate(walk[i].name) /\ ~HasHevcToken(walk[i].name) }

\* the byte count the -size argument of the run stands for
SizeLimit ==
    CASE size_arg = <<"0">> -> 0
      [] size_arg = <<"3">> -> 3
      [] size_arg = <<"1","K">> -> 1024

CountLimited == conversion_limit > 0
SizeLimited == SizeLimit > 0
Ended == pc \in {"completed", "count_reached", "size_reached"}

\* this step calls process_video on the candidate the loop is at
StartsFile == AtFile /\ IsCandidate(Current.name) /\ pc' # "count_reached"

-----------------------------------------------------------------------------
(* C1 *)

\* C1: with a count limit L > 0, process_video is never started once
\* conversion_count >= L, at most L files that are not skipped are processed, and
\* with L = 1, no size limit and two eligible files a run that ends has processed
\* exactly one file and ends with the count-limit message.
C1_CountLimit ==
    /\ [][StartsFile => ~(CountLimited /\ conversion_count >= conversion_limit)]_vars
    /\ [](CountLimited => Cardinality(probed) <= conversion_limit)
    /\ []((conversion_limit = 1 /\ ~SizeLimited /\ Cardinality(Eligible) = 2 /\ Ended)
            => pc = "count_reached" /\ Cardinality(transcoded) = 1)

C1_Witness ==
    /\ conversion_limit = 1 /\ ~SizeLimited /\ Cardinality(Eligible) = 2
    /\ pc = "count_reached" /\ Cardinality(transcoded) = 1 /\ conversion_count = 1

-----------------------------------------------------------------------------
(* C2 *)

\* C2: with a size limit S > 0, no candidate is started while size_written >= S;
\* the step that brings size_written to S or more is the accounting of a file that
\* was probed and transcoded, it counts the file, and the run stops there.
C2_SizeLimit ==
    /\ [][StartsFile => ~(SizeLimited /\ size_written >= SizeLimit)]_vars
    /\ [][(SizeLimited /\ size_written < SizeLimit /\ size_written' >= SizeLimit)
            => /\ pc = "stat" /\ pc' = "size_reached"
               /\ idx \in probed /\ idx \in transcoded
               /\ conversion_count' = conversion_count + 1
               /\ size_written' = size_written + fs[job.output_path]]_vars
    /\ []((SizeLimited /\ size_written >= SizeLimit) => pc = "size_reached")
    /\ [][pc # "size_reached"]_vars

C2_Witness ==
    /\ pc = "size_reached" /\ SizeLimit = 1024 /\ size_written >= 1024
    /\ conversion_count = 1 /\ idx = 1 /\ 2 \in Eligible

-----------------------------------------------------------------------------
(* C3 *)

\* C3 as stated: Completed is never reached with conversion_count >= a positive
\* count limit or size_written >= a positive size limit.
C3_CompletedBelowLimits ==
    pc = "completed" =>
        /\ ~(CountLimited /\ conversion_count >= conversion_limit)
        /\ ~(SizeLimited /\ size_written >= SizeLimit)

\* C3 amended: Completed is never reached with size_written >= a positive size
\* limit nor with conversion_count above a positive count limit; it is reached with
\* conversion_count equal to the count limit only when no candidate follows the
\* file that was processed last.
C3_CompletedWithinLimits ==
    pc = "completed" =>
        /\ ~(SizeLimited /\ size_written >= SizeLimit)
        /\ CountLimited => conversion_count <= conversion_limit
        /\ (CountLimited /\ conversion_count = conversion_limit) =>
              \E last \in transcoded :
                  \A i \in DOMAIN walk : i > last => ~IsCandidate(walk[i].name)

C3_Witness ==
    /\ pc = "completed" /\ conversion_limit = 2 /\ conversion_count = 2
    /\ SizeLimit = 1024 /\ size_written > 0

-----------------------------------------------------------------------------
(* C4 *)

\* C4: at a candidate whose name holds x265, hevc or h265 in any casing, the next
\* step runs no probe and no transcode, writes no file and leaves
\* conversion_count and size_written as they were; such a file is never probed or
\* transcoded.
C4_HevcSkipped ==
    /\ [][(AtFile /\ IsCandidate(Current.name) /\ HasHevcToken(Current.name))
            => /\ probed' = probed /\ transcoded' = transcoded /\ fs' = fs
               /\ conversion_count' = conversion_count
               /\ size_written' = size_written
               /\ pc' \in {"walk", "count_reached"}]_vars
    /\ [](\A i \in probed \cup transcoded : ~HasHevcToken(walk[i].name))

C4_Witness ==
    /\ pc = "walk" /\ idx = 3
    /\ walk[1].name = Skip_mkv /\ walk[2].name = Skip_avi
    /\ conversion_count = 0 /\ size_written = 0 /\ probed = {}

-----------------------------------------------------------------------------
(* C5 *)

LimitsOff == conversion_limit <= 0 /\ size_arg = <<"0">>

\* how far the run has come: every step of main moves it forward
Progress ==
    CASE pc = "walk" -> 4 * idx
      [] pc = "parse" -> 4 * idx + 1
      [] pc = "ffmpeg" -> 4 * idx + 2
      [] pc = "stat" -> 4 * idx + 3
      [] OTHER -> 4 * (Len(walk) + 2)

Running == pc \in {"walk", "parse", "ffmpeg", "stat"}

\* C5: with a count limit of 0 or less and a size argument of "0" the run is never
\* stopped by a limit: each step takes it forward, it is at a position of the loop
\* until it ends Completed or an error ends it, and at Completed the walk is over
\* and every candidate was visited, each one a skipped name or a transcoded file.
C5_LimitsDisabled ==
    /\ [](LimitsOff => (Running \/ pc \in {"completed", "crashed"}))
    /\ []((LimitsOff /\ pc = "completed")
            => idx = Len(walk) + 1 /\ Eligible = transcoded /\ Eligible = probed)
    /\ [][LimitsOff => Progress' > Progress]_vars

C5_Witness ==
    /\ conversion_limit = -1 /\ size_arg = <<"0">> /\ pc = "completed"
    /\ Cardinality(transcoded) = 2 /\ size_written >= 1024


-----------------------------------------------------------------------------
(* C6 *)

\* C6 as stated: the output name of an output name is that output name.
C6_Idempotent == nm_step = "twice" => nm_twice = nm_once

AudioTokens == { <<"m","p","3">>, <<"d","t","s">>, <<"w","m","a">>, <<"f","l","a","c">> }

\* "wm" stands right before an audio token
WmBeforeAudioToken(name) ==
    \E t \in AudioTokens : Contains(LowerText(name), <<"w","m">> \o t)

\* C6 amended: the output name of an output name is that output name exactly for
\* the filenames in which no audio token (mp3, dts, wma, flac, in any casing) is
\* directly preceded by "wm"; where one is, the "wm" and the "A" of the inserted
\* "AAC" read as the token wma and the second pass gives another name.
C6_IdempotentUnlessWma ==
    nm_step = "twice" => (nm_twice = nm_once <=> ~WmBeforeAudioToken(nm_in))

C6_Witness ==
    /\ nm_step = "twice" /\ nm_twice = nm_once /\ nm_once # nm_in
    /\ Contains(nm_once, HEVC) /\ Contains(nm_once, AAC)
    /\ Contains(LowerText(nm_in), <<"w","m">>)

-----------------------------------------------------------------------------
(* C7 *)

\* the decimal numeral of a natural number
Numeral(n) ==
    LET width == IF n < 10 THEN 1 ELSE IF n < 100 THEN 2 ELSE IF n < 1000 THEN 3 ELSE 4
        place(k) == IF k = 1 THEN 1 ELSE IF k = 2 THEN 10 ELSE IF k = 3 THEN 100 ELSE 1000
    IN  [i \in 1..width |-> Digits[((n \div place(width - i + 1)) % 10) + 1]]

\* the numbers whose numeral is made of the digits the arguments are drawn from
Numbers ==
    { n \in 0..9999 : Len(Numeral(n)) <= MaxSizeLen
                      /\ \A i \in 1..Len(Numeral(n)) : Numeral(n)[i] \in SizeChars }

\* n * 1024, n * 1024^2, n * 1024^3, n * 1024^4 as hi * 1024^2 + lo
Scaled(n, unit) ==
    CASE unit \in {"K", "k"} -> [neg |-> FALSE, hi |-> (n * 1024) \div (1024 * 1024),
                                 lo |-> (n * 1024) % (1024 * 1024)]
      [] unit \in {"M", "m"} -> [neg |-> FALSE, hi |-> n, lo |-> 0]
      [] unit \in {"G", "g"} -> [neg |-> FALSE, hi |-> n * 1024, lo |-> 0]
      [] unit \in {"T", "t"} -> [neg |-> FALSE, hi |-> n * 1024 * 1024, lo |-> 0]

UnitChars == {"K", "k", "M", "m", "G", "g", "T", "t"}

\* the values claimed for nK, nM, nG, nT, "0" and a bare integer
C7_Values ==
    /\ \A n \in Numbers : \A u \in UnitChars :
          sz_in = Numeral(n) \o <<u>> => sz_out = [ok |-> TRUE, val |-> Scaled(n, u)]
    /\ \A n \in Numbers :
          sz_in = Numeral(n) =>
              sz_out = [ok |-> TRUE, val |-> [neg |-> FALSE, hi |-> 0, lo |-> n]]

\* C7 as stated: the claimed values, and a result that is never negative.
C7_NonNegative ==
    sz_step = "parsed" => /\ C7_Values
                          /\ sz_out.ok => ~sz_out.val.neg

\* C7 amended: the claimed values; the result is non-negative for every accepted
\* argument that has no minus sign, and an accepted argument with a minus sign gives
\* a result that is zero or negative.
C7_NonNegativeUnlessMinus ==
    sz_step = "parsed" =>
        /\ C7_Values
        /\ (sz_out.ok /\ sz_in[1] # "-") => ~sz_out.val.neg
        /\ (sz_out.ok /\ sz_in[1] = "-") => (sz_out.val.neg \/ sz_out.val = BigZero)

C7_Witness ==
    /\ sz_step = "parsed" /\ sz_in = <<"1", "9", "t">>
    /\ sz_out = [ok |-> TRUE, val |-> [neg |-> FALSE, hi |-> 19 * 1024 * 1024, lo |-> 0]]


-----------------------------------------------------------------------------
(* C8 *)

\* the streams of a probe output: its lines that have two fields
StreamsOf(out) ==
    LET lines == CodecInfo(out)
    IN  [i \in 1..Len(lines) |-> Split(lines[i], COMMA)]

\* the codec the prober retains for audio: that of the last audio stream listed
LastAudioCodec(out) ==
    LET streams == StreamsOf(out)
        audio == {i \in 1..Len(streams) : Len(streams[i]) = 2 /\ streams[i][2] = <<"audio">>}
    IN  IF audio = {} THEN <<>>
        ELSE streams[CHOOSE i \in audio : \A j \in audio : j <= i][1]

\* C8: when a probe output has been read, the audio action is "copy" if the codec
\* of the last audio stream listed is aac, ac3 or eac3 as written, and "aac"
\* otherwise, no audio stream included; the transcoder is run with that action.
C8_AudioAction ==
    /\ [][(pc = "parse" /\ pc' = "ffmpeg")
            => job'.audio_action =
                   IF LastAudioCodec(stdout) \in {<<"aac">>, <<"ac3">>, <<"eac3">>}
                   THEN "copy" ELSE "aac"]_vars
    /\ [][pc = "ffmpeg" => job' = job]_vars

C8_Witness ==
    /\ pc = "stat" /\ job.audio_action = "copy"
    /\ job.subtitle_action = <<"-c:s", "copy">>

-----------------------------------------------------------------------------
(* C9 *)

\* some line of the probe output has not exactly two comma-separated fields
Malformed(out) ==
    LET lines == CodecInfo(out)
    IN  \E i \in 1..Len(lines) :
            Cardinality({k \in 1..Len(lines[i]) : lines[i][k] = COMMA}) # 1

\* C9: a probe output with a line that has not exactly two fields, the empty
\* output included, and an output file missing when its size is read, each end the
\* run with an error; the step that raises changes neither conversion_count nor
\* size_written nor any file, the failing file is not counted, and nothing runs
\* after it.
C9_FailureAborts ==
    /\ [][(pc = "parse" /\ Malformed(stdout)) => pc' = "crashed"]_vars
    /\ [][(pc = "stat" /\ job.output_path \notin DOMAIN fs) => pc' = "crashed"]_vars
    /\ [][pc' = "crashed"
            => /\ conversion_count' = conversion_count /\ size_written' = size_written
               /\ fs' = fs /\ idx' = idx]_vars
    /\ [][pc # "crashed"]_vars
    /\ [](pc = "crashed" => /\ idx \in probed
                            /\ conversion_count = Cardinality(probed) - 1
                            /\ \A i \in probed \cup transcoded : i <= idx)

C9_Witness ==
    /\ pc = "crashed" /\ idx \in transcoded /\ job.output_path \notin DOMAIN fs
    /\ idx = 1 /\ 2 \in Eligible /\ conversion_count = 0 /\ size_written = 0

-----------------------------------------------------------------------------
(* C10 *)

\* C10: when the output path exists as ffmpeg is started, ffmpeg writes nothing,
\* and the accounting that follows adds 1 to conversion_count and the size that
\* file already had to size_written, then tests the size limit on the new total;
\* so it is also when the output path is the input path.
C10_ExistingOutputCounted ==
    /\ [][(pc = "ffmpeg" /\ job.output_path \in DOMAIN fs) => fs' = fs /\ pc' = "stat"]_vars
    /\ [][(pc = "stat" /\ existing >= 0)
            => /\ conversion_count' = conversion_count + 1
               /\ size_written' = size_written + existing
               /\ pc' = IF SizeLimited /\ size_written + existing >= SizeLimit
                        THEN "size_reached" ELSE "walk"]_vars

C10_Witness ==
    /\ pc = "size_reached" /\ job.output_path = job.input_file
    /\ existing = 1024 /\ fs[job.output_path] = 1024
    /\ conversion_count = 1 /\ size_written = 1024


=============================================================================
